---- MODULE Spec2Model ----
(***************************************************************************)
(* Model of labscript_devices/NI_DAQmx/blacs_tabs.py:                      *)
(*   - NI_DAQmxTab.initialise_GUI: builds the analog-input buttons, the    *)
(*     DataReceiver and the worker processes, in statement order;          *)
(*   - DataReceiver.handler: acknowledges a multipart message, then takes  *)
(*     the capacity-update path or the sample path.                        *)
(* The request/reply loop that calls the handler (ZMQServer) and the       *)
(* producer of the frames are the environment of this file.                *)
(***************************************************************************)
EXTENDS Integers, Sequences, FiniteSets, TLC

(* ---------------- bounds of the model ---------------- *)
MaxAI == 2        \* largest num_AI of a device descriptor
MaxChans == 2     \* longest channel-name array of a frame
MaxLen == 4       \* longest sample payload of a frame
MaxMsgs == 2      \* frames the producer sends

(* ---------------- values ---------------- *)
NoneVal == -1
NO_RESPONSE == "NO_RESPONSE"
Raised == "raised"
OkReply == <<"ok">>

NameTable == <<"ai0", "ai1", "ai2", "ai3", "ai4", "ai5">>

\* f'ai{i:d}'
AiName(i) == NameTable[i + 1]

\* a channel name no descriptor below declares
UnknownName == AiName(MaxAI + 1)

\* [f'ai{i:d}' for i in range(num_AI)]
LegacyAIChans(num_AI) == [i \in 1..num_AI |-> AiName(i - 1)]

\* the AI_chans lists a descriptor with num_AI inputs can declare: ai0.. or ai1..
DeclaredAIChans(num_AI) ==
    {[i \in 1..num_AI |-> AiName(i - 1)], [i \in 1..num_AI |-> AiName(i)]}

\* connection-table properties and the 'waits' attributes read by initialise_GUI;
\* without the AI_chans key the list is the legacy one
Descriptors ==
    UNION {
      {[has_version |-> v, num_AI |-> n, has_AI_chans |-> TRUE, AI_chans |-> c,
        num_CI |-> ci, is_wait_acq_device |-> w] :
          v \in BOOLEAN, c \in DeclaredAIChans(n), ci \in 0..1, w \in BOOLEAN}
      \cup
      {[has_version |-> v, num_AI |-> n, has_AI_chans |-> FALSE, AI_chans |-> <<>>,
        num_CI |-> ci, is_wait_acq_device |-> w] :
          v \in BOOLEAN, ci \in 0..1, w \in BOOLEAN}
      : n \in 0..MaxAI}

(* ---------------- wire format ---------------- *)
\* one part of a multipart message
TagPart == [kind |-> "tag", names |-> <<>>, nums |-> <<>>]
JsonPart(names) == [kind |-> "json", names |-> names, nums |-> <<>>]
BadJsonPart == [kind |-> "badjson", names |-> <<>>, nums |-> <<>>]
BinPart(nums) == [kind |-> "bin", names |-> <<>>, nums |-> nums]

\* the name arrays of the frames: ai0.., and the same with the first or the last
\* name replaced by the unknown one
ChanLists ==
    UNION {{LegacyAIChans(n)} \cup
           (IF n = 0 THEN {}
            ELSE {[LegacyAIChans(n) EXCEPT ![1] = UnknownName],
                  [LegacyAIChans(n) EXCEPT ![n] = UnknownName]}) : n \in 0..MaxChans}
Payloads == {[j \in 1..L |-> 10 + j] : L \in 0..MaxLen}
CapPayloads == {<<>>, <<500>>}

\* well-formed frames, frames whose name array is not JSON, frames that are too short
SampleFrames ==
    {<<JsonPart(c), BinPart(d)>> : c \in ChanLists, d \in Payloads}
    \cup {<<BadJsonPart, BinPart(<<11>>)>>, <<JsonPart(<<>>)>>}
CapacityFrames ==
    {<<TagPart, JsonPart(c), BinPart(d)>> : c \in ChanLists, d \in CapPayloads}
    \cup {<<TagPart, BadJsonPart, BinPart(<<500>>)>>, <<TagPart>>}
Frames == SampleFrames \cup CapacityFrames

(* ---------------- pure helpers of the handler ---------------- *)
\* data[0] == b'max_plot_points'
IsCapacityFrame(data) == data[1].kind = "tag"

\* a contiguous block per channel instead of a stride
Slice_contiguous(data, start, step) ==
    SubSeq(data, start * (Len(data) \div step) + 1, (start + 1) * (Len(data) \div step))

\* data[start::step] with step >= 1, start counted from 0
RECURSIVE Slice(_, _, _)
Slice(data, start, step) ==
    IF start >= Len(data) THEN <<>>
    ELSE <<data[start + 1]>> \o Slice(data, start + step, step)

\* [data[i::num_chans] for i in range(num_chans)]
SplitData(data, num_chans) == [i \in 1..num_chans |-> Slice(data, i - 1, num_chans)]

\* the capacity path raises: data[1]/data[2] missing, json.loads fails, frombuffer(...)[0] on empty
CapacityRaises(data) ==
    \/ Len(data) < 3
    \/ data[2].kind # "json"
    \/ data[3].kind # "bin"
    \/ Len(data[3].nums) = 0

\* the sample path with a check that the payload divides evenly among the channels
SampleRaises_remainder(data) ==
    \/ data[1].kind # "json"
    \/ Len(data) < 2
    \/ data[2].kind # "bin"
    \/ (Len(data[1].names) > 0 /\ Len(data[2].nums) % Len(data[1].names) # 0)

\* the sample path with a division by the channel count
SampleRaises_division(data) ==
    \/ data[1].kind # "json"
    \/ Len(data) < 2
    \/ data[2].kind # "bin"
    \/ Len(data[1].names) = 0

\* the sample path raises: json.loads fails, data[1] missing
SampleRaises(data) ==
    \/ data[1].kind # "json"
    \/ Len(data) < 2
    \/ data[2].kind # "bin"

HandlerRaises(data) ==
    IF IsCapacityFrame(data) THEN CapacityRaises(data) ELSE SampleRaises(data)

\* a handler that falls off its end and returns None
HandlerReturnValue_none == "None"

\* the value of both return statements of the handler
HandlerReturnValue == NO_RESPONSE

\* the handler call posted without waiting for it
WaitForReturn_false == FALSE

\* @inmain_decorator(wait_for_return=True)
WaitForReturn == TRUE

\* the loop of the sample path, lines 65-68: its body is `pass`
SampleDispatch(names, split) == <<>>

SetBufferCall(chan, buf) == [op |-> "set_buffer", chan |-> chan, buf |-> buf, value |-> NoneVal]
SetMaxDataCall(chan, value) == [op |-> "set_max_data", chan |-> chan, buf |-> <<>>, value |-> value]

\* the loop of the capacity path, lines 53-54: commented out
CapacityDispatch(names, value) == <<>>

(* ---------------- state ---------------- *)
VARIABLES
    props,              \* the descriptor initialise_GUI reads
    gui_pc,             \* position of initialise_GUI
    ai_buttons,         \* self.ai_buttons, shared with DataReceiver.buttons
    workers,            \* workers in creation order
    primary_worker,     \* self.primary_worker
    secondary_workers,  \* add_secondary_worker calls, in order
    dr_created,         \* self.data_receiver exists
    last_frame_time,    \* DataReceiver.last_frame_time
    frame_rate,         \* DataReceiver.frame_rate
    sink_calls,         \* calls the handler made on buttons, in order
    inbox,              \* requests sent and not yet received by the server
    sent,               \* replies sent on the socket, in order
    srv_pc,             \* server thread: "recv" or "wait" (inside the handler call)
    mainq,              \* handler calls posted to the main thread
    reported,           \* handler exceptions reported by the server loop
    h_pc,               \* handler: "idle", "decode", "return"
    data,               \* the handler's argument
    chans,              \* handler local
    split_data,         \* handler local
    cap,                \* handler local (data, rebound on the capacity path)
    result,             \* what the handler call produced
    prod_pc,            \* producer: "ready" or "await"
    nsent,              \* frames the producer has sent
    prod_acks,          \* replies the producer has consumed
    received,           \* requests the server has received
    returned,           \* handler calls that have finished
    frame_start         \* receiver and sink state when the current handler call began


vars == <<props, gui_pc, ai_buttons, workers, primary_worker, secondary_workers,
          dr_created, last_frame_time, frame_rate, sink_calls, inbox, sent, srv_pc,
          mainq, reported, h_pc, data, chans, split_data, cap, result, prod_pc,
          nsent, prod_acks, received, returned, frame_start>>

serverVars == <<inbox, sent, srv_pc, mainq, reported, received>>
producerVars == <<prod_pc, nsent, prod_acks>>
handlerVars == <<h_pc, data, chans, split_data, cap, result, returned, frame_start,
                 sink_calls, last_frame_time, frame_rate>>

Snapshot == [buttons |-> ai_buttons, calls |-> sink_calls,
             last_frame_time |-> last_frame_time, frame_rate |-> frame_rate,
             reported |-> reported]

Init ==
    /\ props \in Descriptors
    /\ gui_pc = "start"
    /\ ai_buttons = <<>>
    /\ workers = <<>>
    /\ primary_worker = ""
    /\ secondary_workers = <<>>
    /\ dr_created = FALSE
    /\ last_frame_time = NoneVal
    /\ frame_rate = NoneVal
    /\ sink_calls = <<>>
    /\ inbox = <<>>
    /\ sent = <<>>
    /\ srv_pc = "recv"
    /\ mainq = <<>>
    /\ reported = 0
    /\ h_pc = "idle"
    /\ data = <<>>
    /\ chans = <<>>
    /\ split_data = <<>>
    /\ cap = NoneVal
    /\ result = ""
    /\ prod_pc = "ready"
    /\ nsent = 0
    /\ prod_acks = 0
    /\ received = 0
    /\ returned = 0
    /\ frame_start = Snapshot

(* ---------------- NI_DAQmxTab.initialise_GUI ---------------- *)
\* the acquisition worker created before the wait monitor worker
GuiOrder_acq_first == <<"start", "buttons", "receiver", "main", "acq", "wait", "caps", "done">>

\* the order of the statements of initialise_GUI
GuiOrder == <<"start", "buttons", "receiver", "main", "wait", "acq", "caps", "done">>

NextGuiPc(pc) == GuiOrder[(CHOOSE i \in 1..Len(GuiOrder) : GuiOrder[i] = pc) + 1]

nonGuiVars == <<props, last_frame_time, frame_rate, sink_calls, inbox, sent, srv_pc, mainq,
                reported, h_pc, data, chans, split_data, cap, result, prod_pc, nsent,
                prod_acks, received, returned, frame_start>>

\* lines 74-89
GuiCheckVersion ==
    /\ gui_pc = "start"
    /\ gui_pc' = IF props.has_version THEN NextGuiPc(gui_pc) ELSE "raised"
    /\ UNCHANGED <<ai_buttons, workers, primary_worker, secondary_workers, dr_created>>
    /\ UNCHANGED nonGuiVars

\* lines 91-102
AIChansOf(d) == IF d.has_AI_chans THEN d.AI_chans ELSE LegacyAIChans(d.num_AI)

\* lines 177-187
GuiCreateButtons ==
    /\ gui_pc = "buttons"
    /\ LET AI_chans == AIChansOf(props)
       IN ai_buttons' = [c \in {AI_chans[i] : i \in 1..Len(AI_chans)} |-> [value |-> 0]]
    /\ gui_pc' = NextGuiPc(gui_pc)
    /\ UNCHANGED <<workers, primary_worker, secondary_workers, dr_created>>
    /\ UNCHANGED nonGuiVars

\* line 189 and DataReceiver.__init__
GuiCreateReceiver ==
    /\ gui_pc = "receiver"
    /\ dr_created' = TRUE
    /\ last_frame_time' = NoneVal
    /\ frame_rate' = NoneVal
    /\ gui_pc' = NextGuiPc(gui_pc)
    /\ UNCHANGED <<ai_buttons, workers, primary_worker, secondary_workers>>
    /\ UNCHANGED <<props, sink_calls, inbox, sent, srv_pc, mainq, reported, h_pc, data,
                   chans, split_data, cap, result, prod_pc, nsent, prod_acks,
                   received, returned, frame_start>>

\* lines 204-225
GuiCreateMainWorker ==
    /\ gui_pc = "main"
    /\ workers' = Append(workers, "main_worker")
    /\ primary_worker' = "main_worker"
    /\ gui_pc' = NextGuiPc(gui_pc)
    /\ UNCHANGED <<ai_buttons, secondary_workers, dr_created>>
    /\ UNCHANGED nonGuiVars

\* lines 227-251
GuiCreateWaitMonitorWorker ==
    /\ gui_pc = "wait"
    /\ IF props.is_wait_acq_device
         THEN IF props.num_CI = 0
                THEN /\ gui_pc' = "raised"
                     /\ UNCHANGED <<workers, secondary_workers>>
                ELSE /\ workers' = Append(workers, "wait_monitor_worker")
                     /\ secondary_workers' = Append(secondary_workers, "wait_monitor_worker")
                     /\ gui_pc' = NextGuiPc(gui_pc)
         ELSE /\ gui_pc' = NextGuiPc(gui_pc)
              /\ UNCHANGED <<workers, secondary_workers>>
    /\ UNCHANGED <<ai_buttons, primary_worker, dr_created>>
    /\ UNCHANGED nonGuiVars

\* lines 258-276
GuiCreateAcquisitionWorker ==
    /\ gui_pc = "acq"
    /\ IF props.num_AI > 0
         THEN /\ workers' = Append(workers, "acquisition_worker")
              /\ secondary_workers' = Append(secondary_workers, "acquisition_worker")
         ELSE UNCHANGED <<workers, secondary_workers>>
    /\ gui_pc' = NextGuiPc(gui_pc)
    /\ UNCHANGED <<ai_buttons, primary_worker, dr_created>>
    /\ UNCHANGED nonGuiVars

\* lines 278-280
GuiSetCapabilities ==
    /\ gui_pc = "caps"
    /\ gui_pc' = NextGuiPc(gui_pc)
    /\ UNCHANGED <<ai_buttons, workers, primary_worker, secondary_workers, dr_created>>
    /\ UNCHANGED nonGuiVars

(* ---------------- the producer ---------------- *)
\* the acquisition worker is handed data_receiver.port when it is created (line 273)
ProducerSend(m) ==
    /\ prod_pc = "ready"
    /\ nsent < MaxMsgs
    /\ \E i \in 1..Len(workers) : workers[i] = "acquisition_worker"
    /\ inbox' = Append(inbox, m)
    /\ nsent' = nsent + 1
    /\ prod_pc' = "await"
    /\ UNCHANGED <<props, gui_pc, ai_buttons, workers, primary_worker, secondary_workers,
                   dr_created, sent, srv_pc, mainq, reported, prod_acks, received>>
    /\ UNCHANGED handlerVars

\* the producer takes one reply for its outstanding request
ProducerRecvAck ==
    /\ prod_pc = "await"
    /\ prod_acks < Len(sent)
    /\ prod_acks' = prod_acks + 1
    /\ prod_pc' = "ready"
    /\ UNCHANGED <<props, gui_pc, ai_buttons, workers, primary_worker, secondary_workers,
                   dr_created, nsent>>
    /\ UNCHANGED serverVars
    /\ UNCHANGED handlerVars

(* ---------------- the server loop ---------------- *)
\* one iteration of the receive loop: take the request and call the handler, which
\* the decorator posts to the main thread; without wait_for_return the call comes
\* back at once with a handle, which is not NO_RESPONSE and is sent as the reply
ServerRecv ==
    /\ dr_created
    /\ srv_pc = "recv"
    /\ inbox # <<>>
    /\ inbox' = Tail(inbox)
    /\ mainq' = Append(mainq, Head(inbox))
    /\ received' = received + 1
    /\ IF WaitForReturn
         THEN srv_pc' = "wait" /\ sent' = sent
         ELSE srv_pc' = "recv" /\ sent' = Append(sent, <<"handle">>)
    /\ UNCHANGED <<props, gui_pc, ai_buttons, workers, primary_worker, secondary_workers,
                   dr_created, reported>>
    /\ UNCHANGED producerVars
    /\ UNCHANGED handlerVars

(* ---------------- DataReceiver.handler ---------------- *)
\* the main thread runs posted calls from its event loop, not inside initialise_GUI
MainThreadFree == gui_pc \in {"done", "raised"}

\* line 46: self.send([b'ok'])
HandlerSend ==
    /\ h_pc = "idle"
    /\ mainq # <<>>
    /\ MainThreadFree
    /\ data' = Head(mainq)
    /\ mainq' = Tail(mainq)
    /\ sent' = Append(sent, OkReply)
    /\ frame_start' = Snapshot
    /\ h_pc' = "decode"
    /\ UNCHANGED <<props, gui_pc, ai_buttons, workers, primary_worker, secondary_workers,
                   dr_created, inbox, srv_pc, reported, received, returned,
                   chans, split_data, cap, result, sink_calls,
                   last_frame_time, frame_rate>>
    /\ UNCHANGED producerVars

\* lines 48-69: the two paths, up to the return statement or the exception
HandlerDecode ==
    /\ h_pc = "decode"
    /\ h_pc' = "return"
    /\ IF HandlerRaises(data)
         THEN /\ result' = Raised
              /\ UNCHANGED <<chans, split_data, cap, sink_calls>>
         ELSE IF IsCapacityFrame(data)
           THEN /\ chans' = data[2].names
                /\ cap' = data[3].nums[1]
                /\ sink_calls' = sink_calls \o CapacityDispatch(chans', cap')
                /\ result' = HandlerReturnValue
                /\ UNCHANGED split_data
           ELSE /\ chans' = data[1].names
                /\ split_data' = SplitData(data[2].nums, Len(chans'))
                /\ sink_calls' = sink_calls \o SampleDispatch(chans', split_data')
                /\ result' = HandlerReturnValue
                /\ UNCHANGED cap
    /\ UNCHANGED <<props, gui_pc, ai_buttons, workers, primary_worker, secondary_workers,
                   dr_created, data, returned, frame_start, last_frame_time, frame_rate>>
    /\ UNCHANGED serverVars
    /\ UNCHANGED producerVars

\* the call ends; the server loop reports an exception, sends a result that is not
\* NO_RESPONSE, and goes back to receiving
HandlerReturn ==
    /\ h_pc = "return"
    /\ h_pc' = "idle"
    /\ returned' = returned + 1
    /\ IF WaitForReturn
         THEN /\ srv_pc' = "recv"
              /\ reported' = IF result = Raised THEN reported + 1 ELSE reported
              /\ sent' = IF result \notin {Raised, NO_RESPONSE}
                            THEN Append(sent, <<result>>) ELSE sent
         ELSE UNCHANGED <<srv_pc, reported, sent>>
    /\ data' = <<>>
    /\ chans' = <<>>
    /\ split_data' = <<>>
    /\ cap' = NoneVal
    /\ result' = ""
    /\ UNCHANGED <<props, gui_pc, ai_buttons, workers, primary_worker, secondary_workers,
                   dr_created, inbox, mainq, received, frame_start, sink_calls, last_frame_time, frame_rate>>
    /\ UNCHANGED producerVars

(* ---------------- specification ---------------- *)
Next ==
    \/ GuiCheckVersion
    \/ GuiCreateButtons
    \/ GuiCreateReceiver
    \/ GuiCreateMainWorker
    \/ GuiCreateWaitMonitorWorker
    \/ GuiCreateAcquisitionWorker
    \/ GuiSetCapabilities
    \/ \E m \in Frames : ProducerSend(m)
    \/ ProducerRecvAck
    \/ ServerRecv
    \/ HandlerSend
    \/ HandlerDecode
    \/ HandlerReturn

Spec == Init /\ [][Next]_vars

(* ---------------- properties ---------------- *)
\* the frame the handler has just worked on, seen at its return statement
AtReturn == h_pc = "return"
SampleShape(d) == Len(d) = 2 /\ d[1].kind = "json" /\ d[2].kind = "bin"
CapacityShape(d) ==
    Len(d) = 3 /\ d[1].kind = "tag" /\ d[2].kind = "json" /\ d[3].kind = "bin"
        /\ Len(d[3].nums) >= 1
AllRegistered(names) == \A i \in 1..Len(names) : names[i] \in DOMAIN ai_buttons
NewCalls == SubSeq(sink_calls, Len(frame_start.calls) + 1, Len(sink_calls))
PersistentUnchanged ==
    /\ ai_buttons = frame_start.buttons
    /\ sink_calls = frame_start.calls
    /\ last_frame_time = frame_start.last_frame_time
    /\ frame_rate = frame_start.frame_rate
CeilDiv(a, b) == (a + b - 1) \div b

\* C1: every message gets exactly one reply, the reply is [b'ok'], it is on the
\* socket before anything is decoded, a handler call that returns yields
\* NO_RESPONSE, and once m messages are through, m replies have been sent.
C1_OneAckPerMessage ==
    /\ \A i \in 1..Len(sent) : sent[i] = OkReply
    /\ Len(sent) = returned + (IF h_pc = "idle" THEN 0 ELSE 1)
    /\ (h_pc = "decode" => chans = <<>> /\ split_data = <<>> /\ cap = NoneVal)
    /\ (AtReturn /\ result # Raised => result = NO_RESPONSE)
    /\ (h_pc = "idle" /\ mainq = <<>> /\ inbox = <<>> => Len(sent) = nsent)

C1_Witness ==
    /\ h_pc = "idle" /\ returned = 2 /\ nsent = 2
    /\ Len(sent) = 2 /\ reported = 1

\* C2: with n >= 1 names and a payload of n*k values, k >= 1, channel i gets
\* payload[i], payload[i+n], ... (k values), and every payload position lands in
\* exactly one channel.
C2_StridedDeinterleave ==
    (AtReturn /\ SampleShape(data) /\ result # Raised) =>
        LET payload == data[2].nums
            n == Len(data[1].names)
        IN (n >= 1 /\ Len(payload) >= n /\ Len(payload) % n = 0) =>
             LET k == Len(payload) \div n
             IN /\ Len(split_data) = n
                /\ \A i \in 1..n :
                     /\ Len(split_data[i]) = k
                     /\ \A j \in 1..k : split_data[i][j] = payload[(i - 1) + (j - 1) * n + 1]
                /\ \A p \in 1..Len(payload) :
                     Cardinality({ij \in (1..n) \X (1..k) :
                                    split_data[ij[1]][ij[2]] = payload[p]}) = 1

C2_Witness ==
    /\ AtReturn /\ SampleShape(data) /\ result = NO_RESPONSE
    /\ Len(data[1].names) = 2 /\ Len(data[2].nums) = 4
    /\ split_data = << <<11, 13>>, <<12, 14>> >>

\* C3: a well-formed sample frame whose names are all registered hands each named
\* channel's sequence to that channel's button exactly once.
C3_SamplesForwarded ==
    (AtReturn /\ SampleShape(data) /\ result # Raised /\ AllRegistered(data[1].names)
       /\ Len(data[1].names) >= 1 /\ Len(data[2].nums) >= Len(data[1].names)
       /\ Len(data[2].nums) % Len(data[1].names) = 0) =>
        NewCalls = [i \in 1..Len(data[1].names) |->
                      SetBufferCall(data[1].names[i],
                                    Slice(data[2].nums, i - 1, Len(data[1].names)))]

\* C4: a capacity-update frame with registered names calls the capacity hint with
\* cap exactly once on each named button and delivers no samples.
C4_CapacityForwarded ==
    (AtReturn /\ CapacityShape(data) /\ AllRegistered(data[2].names)) =>
        NewCalls = [i \in 1..Len(data[2].names) |->
                      SetMaxDataCall(data[2].names[i], data[3].nums[1])]

C6_UnknownChannelRejected ==
    /\ (AtReturn /\ SampleShape(data) /\ ~AllRegistered(data[1].names)) =>
          (result = Raised /\ PersistentUnchanged)
    /\ (AtReturn /\ CapacityShape(data) /\ ~AllRegistered(data[2].names)) =>
          (result = Raised /\ PersistentUnchanged)

\* C7: a capacity-update frame leaves the rate tracker alone, and a sample frame
\* sets the previous-frame time; from the second sample frame on the rate is set.
C7_RateTracker ==
    /\ (AtReturn /\ IsCapacityFrame(data)) =>
          (last_frame_time = frame_start.last_frame_time
             /\ frame_rate = frame_start.frame_rate)
    /\ (AtReturn /\ SampleShape(data) /\ result # Raised) =>
          /\ last_frame_time # NoneVal
          /\ (frame_start.last_frame_time # NoneVal => frame_rate # NoneVal)

\* C8 as stated: a sample frame with an empty channel-name array is a decode failure.
C8_EmptyNamesRejected ==
    (AtReturn /\ SampleShape(data) /\ Len(data[1].names) = 0) => result = Raised

\* C8 amended: such a frame is no failure; the de-interleave yields no channel,
\* the handler returns NO_RESPONSE, nothing is reported, and the receiver and the
\* buttons are as before the frame.
C8_EmptyNamesAccepted ==
    (AtReturn /\ SampleShape(data) /\ Len(data[1].names) = 0) =>
        /\ result = NO_RESPONSE
        /\ split_data = <<>>
        /\ reported = frame_start.reported
        /\ PersistentUnchanged

C8_Witness ==
    /\ AtReturn /\ SampleShape(data) /\ Len(data[1].names) = 0
    /\ Len(data[2].nums) = 3 /\ result = NO_RESPONSE

\* C9: the main worker is created first and is the primary worker, the wait
\* monitor worker (only on the wait-monitor acquisition device) comes before the
\* acquisition worker (only with num_AI > 0), and a completed initialise_GUI has
\* created exactly these, in this order.
C9_WorkerOrder ==
    /\ (workers # <<>> => workers[1] = "main_worker" /\ primary_worker = "main_worker")
    /\ \A i, j \in 1..Len(workers) :
          (workers[i] = "wait_monitor_worker" /\ workers[j] = "acquisition_worker") => i < j
    /\ (gui_pc = "done" =>
          /\ workers = <<"main_worker">>
                \o (IF props.is_wait_acq_device THEN <<"wait_monitor_worker">> ELSE <<>>)
                \o (IF props.num_AI > 0 THEN <<"acquisition_worker">> ELSE <<>>)
          /\ secondary_workers = Tail(workers))

C9_Witness ==
    /\ gui_pc = "done"
    /\ workers = <<"main_worker", "wait_monitor_worker", "acquisition_worker">>

\* C10: with a lock-step producer at most one frame is acknowledged and not yet
\* through the handler, at most one handler call is pending or running, and the
\* server receives the next frame only after the previous call has returned.
C10_OneFrameInFlight ==
    /\ received - returned <= 1
    /\ Len(sent) - returned <= 1
    /\ Len(mainq) + (IF h_pc = "idle" THEN 0 ELSE 1) <= 1
    /\ (srv_pc = "recv" => received = returned)
    /\ Len(inbox) <= 1

C10_Witness ==
    /\ h_pc = "decode" /\ inbox # <<>> /\ srv_pc = "wait"
    /\ received = 1 /\ nsent = 2

====
